---- MODULE Spec2Model ----
(***************************************************************************)
(* Outbound ERP (JDE) integration pipeline of scafi_backend:               *)
(*   core.py    http_json (retry loop), jde_ping, send_mail                *)
(*   service.py _extract_jde_fields, _basic_auth_header_for_company,       *)
(*              _attach_credentials, integration-log insert/update,        *)
(*              create_anagrafiche, create_fatture                         *)
(* One worker handles one request at a time; every interaction with the    *)
(* outside (one HTTP attempt, one SQL statement, one mail) draws its       *)
(* outcome nondeterministically.                                           *)
(***************************************************************************)
EXTENDS Integers, Sequences, FiniteSets, TLC

(* ------------------------------ bounds -------------------------------- *)
\* largest configured HTTP_RETRIES explored
MaxRetries == 1
\* largest number of keys of a raw response handed to _extract_jde_fields
MaxKeys == 2
\* longest JDE_CREDENTIALS_JSON list handed to _basic_auth_header_for_company
MaxCreds == 2
\* number of workflows that run side by side on the thread pool
NWorkers == 2
\* largest configured DB_POOL_MAX explored
MaxPool == 2
\* largest configured HTTP_BACKOFF_BASE explored, in tenths of a second
MaxBaseTenths == 3

(* --------------------------- python values ---------------------------- *)
\* Python's None (also JSON null); every other value of the model is a string
None == "<None>"

\* truthiness of a str-or-None value, as used by `x or y`
Truthy(v) == v # None /\ v # ""

\* x or y
Or(x, y) == IF Truthy(x) THEN x ELSE y

\* str(v)
Str(v) == IF v = None THEN "None" ELSE v

\* str.upper() on the values the model draws
Upper(s) ==
    CASE s = "error" -> "ERROR"
      [] s = "ok"    -> "OK"
      [] s = "None"  -> "NONE"
      [] OTHER       -> s

\* a JSON object: a function from its keys to values
EmptyDict == [k \in {} |-> None]

\* dict.get(k, default)
Get(d, k, default) == IF k \in DOMAIN d THEN d[k] ELSE default

\* a decoded JSON document: an object, or anything else (list, string, number)
JsonDict(d) == [kind |-> "dict", d |-> d]
JsonOther == [kind |-> "other", d |-> EmptyDict]

\* json.dumps(js): some text that differs for different documents
Dumps(js) == IF js.kind = "dict" THEN ToString(js.d) ELSE "[]"

(* ------------------- service.py: _extract_jde_fields ------------------ *)
\* alias lists, in the order the source passes them to first()
MessageKeys == <<"message", "jdeSimpleMessage", "userDefinedErrorText">>
JdeStatusKeys == <<"jde__status", "jdeStatus", "jde_status">>
StartTimestampKeys == <<"jde__startTimestamp", "jdeStartTimestamp">>
EndTimestampKeys == <<"jde__endTimestamp", "jdeEndTimestamp">>
StatusKeys == <<"status">>
BatchnoKeys == <<"BatchNo", "batchNo", "batchno">>
ServerExecutionSecondsKeys == <<"jde__serverExecutionSeconds", "jdeServerExecutionSeconds">>
JdeLogIdKeys == <<"jdeLogId", "jde_log_id", "exceptionId">>

\* a plausible slip: skips an alias whose value is falsy instead of testing `k in d`
RECURSIVE FirstTruthy(_, _)
FirstTruthy(d, keys) ==
    IF keys = <<>> THEN None
    ELSE IF Head(keys) \in DOMAIN d /\ Truthy(d[Head(keys)]) THEN d[Head(keys)]
    ELSE FirstTruthy(d, Tail(keys))

\* first(*keys): the value under the first key that is in the response, else None
RECURSIVE First(_, _)
First(d, keys) ==
    IF keys = <<>> THEN None
    ELSE IF Head(keys) \in DOMAIN d THEN d[Head(keys)]
    ELSE First(d, Tail(keys))

ExtractJdeFields(d) ==
    [ message                      |-> First(d, MessageKeys),
      jde_status                   |-> First(d, JdeStatusKeys),
      jde_start_timestamp          |-> First(d, StartTimestampKeys),
      jde_end_timestamp            |-> First(d, EndTimestampKeys),
      status                       |-> First(d, StatusKeys),
      batchno                      |-> First(d, BatchnoKeys),
      jde_server_execution_seconds |-> First(d, ServerExecutionSecondsKeys),
      jde_log_id                   |-> First(d, JdeLogIdKeys) ]

\* the state of `fields` before any response was normalized
NoFields == ExtractJdeFields(EmptyDict)

(* ------------- service.py: credentials (transport and body) ----------- *)
\* base64 of a text: an encoding, never the text itself
B64(s) == "b64<" \o s \o ">"

\* JDE_CREDENTIALS_JSON as json.loads sees it: unset/empty, not JSON, a JSON
\* object (legacy blob), or a JSON list whose items are documents
CredsAbsent == [kind |-> "absent", items |-> <<>>]
CredsMalformed == [kind |-> "malformed", items |-> <<>>]
CredsObject == [kind |-> "object", items |-> <<>>]
CredsList ==
    [kind |-> "list",
     items |-> << JsonDict([company |-> "ACME", user |-> "user", password |-> "password"]),
                  JsonDict([company |-> "ACME", user |-> "u2", password |-> "p2"]) >>]
CredSources == {CredsAbsent, CredsMalformed, CredsObject, CredsList}

\* items a configured list may hold: full records, a record without user and
\* password, a record without company, and an item that is no object
CredItems ==
    { JsonDict([company |-> "ACME", user |-> "user", password |-> "password"]),
      JsonDict([company |-> "ACME", user |-> "u2", password |-> "p2"]),
      JsonDict([company |-> "ZETA", user |-> "z", password |-> "zp"]),
      JsonDict([company |-> "ACME"]),
      JsonDict([user |-> "x", password |-> "y"]),
      JsonOther }
CredLists ==
    { [kind |-> "list", items |-> it] :
        it \in UNION { [1..n -> CredItems] : n \in 0..MaxCreds } }
CredInputs == {CredsAbsent, CredsMalformed, CredsObject} \cup CredLists

\* the header built from one record
BasicHeader(c) ==
    "Basic " \o B64(Str(Get(c, "user", "")) \o ":" \o Str(Get(c, "password", "")))

\* a plausible slip: the loop keeps going and the last matching record wins
RECURSIVE MatchCompanyLast(_, _)
MatchCompanyLast(items, company) ==
    IF items = <<>> THEN None
    ELSE IF Head(items).kind # "dict" THEN None
    ELSE LET rest == MatchCompanyLast(Tail(items), company) IN
         IF rest # None THEN rest
         ELSE IF Get(Head(items).d, "company", None) = company
              THEN BasicHeader(Head(items).d)
              ELSE None

\* the for-loop over the parsed list; c.get on an item that is no object raises,
\* which the enclosing except turns into None
RECURSIVE MatchCompany(_, _)
MatchCompany(items, company) ==
    IF items = <<>> THEN None
    ELSE IF Head(items).kind # "dict" THEN None
    ELSE IF Get(Head(items).d, "company", None) = company
         THEN BasicHeader(Head(items).d)
    ELSE MatchCompany(Tail(items), company)

BasicAuthHeaderForCompany(creds, company) ==
    IF creds.kind = "list" THEN MatchCompany(creds.items, company) ELSE None

\* the value json.loads yields for the configured source, as carried in a payload
ParsedCreds(creds) == "<credentials:" \o creds.kind \o ">"

AttachCredentials(creds, payload) ==
    IF creds.kind # "absent" /\ "credentials" \notin DOMAIN payload
    THEN IF creds.kind = "malformed" THEN payload
         ELSE payload @@ ("credentials" :> ParsedCreds(creds))
    ELSE payload

(* ------------------------------ state --------------------------------- *)
VARIABLES
    HTTP_RETRIES,          \* core.py settings, fixed for the life of the process
    DRY_RUN_DB,
    DRY_RUN_JDE,
    DRY_RUN_SMTP,
    JDE_BASE_URL,
    JDE_CREDENTIALS_JSON,
    HTTP_BACKOFF_BASE,     \* in hundredths of a second
    DB_POOL_MAX,
    flow,                  \* the operation the worker runs
    pc,                    \* position of the worker
    p,                     \* the document of the request being handled
    headers,               \* Authorization value of the outbound headers, or None
    status,                \* HTTP status of the invoice / party-record reply
    jde_resp,              \* decoded body of that reply
    fields,                \* _extract_jde_fields(jde_resp)
    error_text,            \* diagnostic text of the logical-rejection path
    result,                \* ServiceResponse returned (or jde_ping's answer)
    attempt,               \* http_json: local attempt counter of the current call
    retries,               \* http_json: retries argument of the current call
    sleeps,                \* http_json: backoff sleeps of the current call
    delays,                \* http_json: the sleep_s of each of them, in hundredths of a second
    httpEnd,               \* how the last http_json call ended
    last,                  \* outcome of the latest connection attempt
    raised,                \* text of the exception the last http_json call raised
    reqs,                  \* http_json calls issued by the request, in order
    ev,                    \* store/mail/diagnostics calls issued by the request, in order
    log,                   \* table integration_log
    outbox,                \* mails handed to the SMTP server
    conns,                 \* pool: the connections each concurrent workflow has checked out
    wk                     \* the concurrent workflows that use the pool

cfgVars == <<HTTP_RETRIES, DRY_RUN_DB, DRY_RUN_JDE, DRY_RUN_SMTP, JDE_BASE_URL,
             JDE_CREDENTIALS_JSON, HTTP_BACKOFF_BASE, DB_POOL_MAX>>
callVars == <<attempt, retries, sleeps, delays, httpEnd, last, raised>>
poolVars == <<conns, wk>>
retVars == <<pc, status, jde_resp, error_text, result>>
vars == <<HTTP_RETRIES, DRY_RUN_DB, DRY_RUN_JDE, DRY_RUN_SMTP, JDE_BASE_URL,
          JDE_CREDENTIALS_JSON, HTTP_BACKOFF_BASE, DB_POOL_MAX, flow, pc, p, headers,
          status, jde_resp, fields, error_text, result, attempt, retries, sleeps, delays,
          httpEnd, last, raised, reqs, ev, log, outbox, conns, wk>>

(* ------------------------------ inputs -------------------------------- *)
\* InvoiceResponse documents (the fields the pipeline reads)
Invoices ==
    { [CustomId |-> "7", DocumentType |-> "RI", DocumentNumber |-> "100",
       DocumentCompany |-> "00001", Company |-> c] : c \in {"ACME", "ZETA"} }

\* AnagrafichePayload documents
Anagrafiche == { [codice |-> "C1", anagrafica |-> "Rossi"] }

\* HTTP statuses the ERP may answer with
Statuses == {200, 399, 400, 500}

\* reply bodies as read from the wire: JSON text, nothing, or text that is no JSON
WireJson(js) == [t |-> "json", js |-> js]
WireEmpty == [t |-> "empty", js |-> JsonOther]
WireGarbage == [t |-> "garbage", js |-> JsonOther]
WireBodies ==
    { WireJson(JsonDict(d)) :
        d \in { ("status" :> "OK" @@ "jdeLogId" :> "77"),
                ("status" :> "ERROR" @@ "jdeLogId" :> "42" @@ "message" :> "rejected"),
                ("status" :> "ERROR"),
                ("status" :> "error" @@ "jde_log_id" :> "42"),
                ("message" :> "down"),
                ("ErrorLog" :> "bad account") } }
    \cup { WireJson(JsonOther), WireEmpty, WireGarbage }

\* texts of the exceptions a connection attempt may raise
NetErrors == {"timed out", "[Errno 111] Connection refused"}
OtherErrors == {"IncompleteRead(0 bytes read)"}

\* outcomes of one connection attempt
Outcomes ==
    { [kind |-> "reply", status |-> st, data |-> w, text |-> ""] :
        st \in Statuses, w \in WireBodies }
    \cup { [kind |-> "neterr", status |-> 0, data |-> WireEmpty, text |-> e] :
             e \in NetErrors }
    \cup { [kind |-> "exc", status |-> 0, data |-> WireEmpty, text |-> e] :
             e \in OtherErrors }

\* no attempt was made yet
NoOutcome == [kind |-> "none", status |-> 0, data |-> WireEmpty, text |-> ""]

(* -------------------------- core.py: http_json ------------------------ *)
\* json.loads(data.decode() if data else "{}"), with the {"raw": ...} fallback
ParseBody(w) ==
    CASE w.t = "json"    -> w.js
      [] w.t = "empty"   -> JsonDict(EmptyDict)
      [] w.t = "garbage" -> JsonDict("raw" :> "<html>")

\* urlparse(base_url) has a scheme and a hostname
ValidUrl(u) == u \in {"http://jde:8000", "https://jde"}

\* a plausible slip: the path with the spelling of the word corrected
ErrorLogPathRetrieve == "/jderest/orchestrator/ALFA_ORC_RetrieveErrorLog"

\* error_log_path of the diagnostics call
ErrorLogPath == "/jderest/orchestrator/ALFA_ORC_RetriveErrorLog"

\* text of an AttributeError raised by .get on a document that is no object
NoGet == "'list' object has no attribute 'get'"

\* a plausible slip: only statuses above 400 count as rejected
AnagResultAbove(st) ==
    IF st > 400
    THEN [success |-> "0", message |-> "JDE returned status " \o ToString(st)]
    ELSE [success |-> "1", message |-> "OK"]

\* create_anagrafiche: the result for a reply with HTTP status st
AnagResult(st) ==
    IF st >= 400
    THEN [success |-> "0", message |-> "JDE returned status " \o ToString(st)]
    ELSE [success |-> "1", message |-> "OK"]

\* the caller's code from the point http_json returns (st, js) up to its next
\* interaction with the outside
Returned(site, st, js) ==
    CASE site = "fatt" ->
           /\ pc' = "fatt_resp"
           /\ status' = st
           /\ jde_resp' = js
           /\ UNCHANGED <<error_text, result>>
      [] site = "diag" ->
           /\ pc' = "fatt_amend"
           /\ error_text' = IF js.kind = "dict"
                            THEN Or(Get(js.d, "ErrorLog", None), Dumps(js))
                            ELSE "Failed to retrieve JDE error log: " \o NoGet
           /\ UNCHANGED <<status, jde_resp, result>>
      [] site = "anag" ->
           /\ pc' = "done"
           /\ status' = st
           /\ jde_resp' = js
           /\ result' = AnagResult(st)
           /\ UNCHANGED error_text
      [] site = "ping" ->
           /\ pc' = "done"
           /\ result' = [success |-> IF 200 <= st /\ st < 500 THEN "True" ELSE "False",
                         message |-> None]
           /\ UNCHANGED <<status, jde_resp, error_text>>

\* a plausible slip: create_fatture / create_anagrafiche without the top-level
\* except; the exception leaves the handler
RaisedPropagates(site, e) ==
    CASE site = "diag" ->
           /\ pc' = "fatt_amend"
           /\ error_text' = "Failed to retrieve JDE error log: " \o e
           /\ UNCHANGED <<status, jde_resp, result>>
      [] site = "ping" ->
           /\ pc' = "done"
           /\ result' = [success |-> "False", message |-> None]
           /\ UNCHANGED <<status, jde_resp, error_text>>
      [] OTHER ->
           /\ pc' = "crashed"
           /\ UNCHANGED <<status, jde_resp, error_text, result>>

\* a plausible slip: the diagnostics call is not wrapped in its own try, so its
\* exception reaches the top-level except
RaisedDiagUncaught(site, e) ==
    CASE site = "ping" ->
           /\ pc' = "done"
           /\ result' = [success |-> "False", message |-> None]
           /\ UNCHANGED <<status, jde_resp, error_text>>
      [] OTHER ->
           /\ pc' = "done"
           /\ result' = [success |-> "0", message |-> e]
           /\ UNCHANGED <<status, jde_resp, error_text>>

\* a plausible slip: the top-level except answers with a generic text
RaisedGenericMessage(site, e) ==
    CASE site = "diag" ->
           /\ pc' = "fatt_amend"
           /\ error_text' = "Failed to retrieve JDE error log: " \o e
           /\ UNCHANGED <<status, jde_resp, result>>
      [] site = "ping" ->
           /\ pc' = "done"
           /\ result' = [success |-> "False", message |-> None]
           /\ UNCHANGED <<status, jde_resp, error_text>>
      [] OTHER ->
           /\ pc' = "done"
           /\ result' = [success |-> "0", message |-> "Internal Server Error"]
           /\ UNCHANGED <<status, jde_resp, error_text>>

\* the caller's code from the point http_json raises an exception with text e
Raised(site, e) ==
    CASE site = "diag" ->
           /\ pc' = "fatt_amend"
           /\ error_text' = "Failed to retrieve JDE error log: " \o e
           /\ UNCHANGED <<status, jde_resp, result>>
      [] site = "ping" ->
           /\ pc' = "done"
           /\ result' = [success |-> "False", message |-> None]
           /\ UNCHANGED <<status, jde_resp, error_text>>
      [] OTHER ->
           /\ pc' = "done"
           /\ result' = [success |-> "0", message |-> e]
           /\ UNCHANGED <<status, jde_resp, error_text>>

\* a plausible slip: the base URL is checked before the offline switch
HttpCallUrlFirst(site, r) ==
    /\ attempt' = 0
    /\ retries' = r
    /\ sleeps' = 0
    /\ delays' = <<>>
    /\ last' = NoOutcome
    /\ IF ~ValidUrl(JDE_BASE_URL)
       THEN /\ httpEnd' = "exc"
            /\ raised' = "Invalid JDE_BASE_URL: " \o JDE_BASE_URL
            /\ Raised(site, raised')
       ELSE IF DRY_RUN_JDE
       THEN /\ httpEnd' = "dry"
            /\ raised' = None
            /\ Returned(site, 200, JsonDict("dry_run" :> "true"))
       ELSE /\ httpEnd' = "open"
            /\ raised' = None
            /\ pc' = site \o "_http"
            /\ UNCHANGED <<status, jde_resp, error_text, result>>

\* http_json up to the while loop: the offline short-circuit and the URL check
HttpCall(site, r) ==
    /\ attempt' = 0
    /\ retries' = r
    /\ sleeps' = 0
    /\ delays' = <<>>
    /\ last' = NoOutcome
    /\ IF DRY_RUN_JDE
       THEN /\ httpEnd' = "dry"
            /\ raised' = None
            /\ Returned(site, 200, JsonDict("dry_run" :> "true"))
       ELSE IF ~ValidUrl(JDE_BASE_URL)
       THEN /\ httpEnd' = "exc"
            /\ raised' = "Invalid JDE_BASE_URL: " \o JDE_BASE_URL
            /\ Raised(site, raised')
       ELSE /\ httpEnd' = "open"
            /\ raised' = None
            /\ pc' = site \o "_http"
            /\ UNCHANGED <<status, jde_resp, error_text, result>>

\* a plausible slip: the loop never gives up
GiveUpNever(a, r) == FALSE

\* the test that ends the retry loop after a network-level failure
GiveUp(a, r) == a > (1 + r)

\* a plausible slip: a reply with a 5xx status is retried like a network failure
RetryReplyOn5xx(o) == o.kind = "reply" /\ o.status < 500

\* an attempt whose outcome makes http_json return
Replied(o) == o.kind = "reply"

\* the call site whose http_json call is in its loop
Site(q) ==
    CASE q = "fatt_http" -> "fatt"
      [] q = "diag_http" -> "diag"
      [] q = "anag_http" -> "anag"
      [] q = "ping_http" -> "ping"

\* random.uniform(0, 0.2), in hundredths of a second: the ends and the middle
JitterMax == 20
JitterDraws == {0, JitterMax \div 2, JitterMax}

\* 2 ** n
RECURSIVE Pow2(_)
Pow2(n) == IF n = 0 THEN 1 ELSE 2 * Pow2(n - 1)

\* a plausible slip: the exponent counts the attempt that follows the sleep
BackoffNextAttempt(base, a, jitter) == base * Pow2(a) + jitter

\* sleep_s after the failure of attempt a
Backoff(base, a, jitter) == base * Pow2(a - 1) + jitter

\* one iteration of the while loop of http_json, the jitter drawn from J
HttpLoop(J) ==
    /\ pc \in {"fatt_http", "diag_http", "anag_http", "ping_http"}
    /\ attempt' = attempt + 1
    /\ UNCHANGED <<cfgVars, flow, p, headers, fields, retries, reqs, ev, log, outbox,
                   poolVars>>
    /\ \E o \in Outcomes :
         /\ last' = o
         /\ \/ /\ Replied(o)
               /\ httpEnd' = "reply"
               /\ UNCHANGED <<sleeps, delays>>
               /\ raised' = None
               /\ Returned(Site(pc), o.status, ParseBody(o.data))
            \/ /\ ~Replied(o)
               /\ o.kind # "exc"
               /\ IF GiveUp(attempt', retries)
                  THEN /\ httpEnd' = "neterr"
                       /\ UNCHANGED <<sleeps, delays>>
                       /\ raised' = o.text
                       /\ Raised(Site(pc), o.text)
                  ELSE /\ httpEnd' = httpEnd
                       /\ sleeps' = sleeps + 1
                       /\ \E jitter \in J :
                            delays' = Append(delays,
                                             Backoff(HTTP_BACKOFF_BASE, attempt', jitter))
                       /\ raised' = None
                       /\ UNCHANGED retVars
            \/ /\ o.kind = "exc"
               /\ httpEnd' = "exc"
               /\ UNCHANGED <<sleeps, delays>>
               /\ raised' = o.text
               /\ Raised(Site(pc), o.text)

\* the loop with the jitter at its lower end (the workflow does not depend on it)
HttpAttempt == HttpLoop({0})

\* the loop with the jitter drawn from its range
HttpAttemptJitter == HttpLoop(JitterDraws)

(* ------------------- service.py: integration_log ---------------------- *)
\* a store call raises: the store is enabled and the connection or statement fails
DbFails(ok) == ~DRY_RUN_DB /\ ~ok

\* the entries of ev for one call: the call, and its failure when it raises
Called(name, failed) == IF failed THEN <<name, name \o "_failed">> ELSE <<name>>

\* the row _db_insert_integration_log writes for document d
LogRow(d, message, f) ==
    [ object_id |-> d.CustomId,
      object_type |-> d.DocumentType,
      message |-> message,
      jde_status |-> f.jde_status,
      jde_start_timestamp |-> f.jde_start_timestamp,
      jde_end_timestamp |-> f.jde_end_timestamp,
      status |-> f.status,
      batchno |-> f.batchno,
      jde_server_execution_seconds |-> f.jde_server_execution_seconds,
      jde_log_id |-> Or(f.jde_log_id, "0"),
      integration_type |-> "INV",
      code |-> d.DocumentNumber,
      company |-> d.DocumentCompany ]

\* _db_insert_integration_log: the table after the call; ok is whether acquiring
\* the connection and executing the statement succeed
DbInsert(table, row, ok) ==
    IF DRY_RUN_DB \/ DbFails(ok) THEN table ELSE Append(table, row)

\* _db_update_integration_log_message_by_jde_log_id: the table after the call
DbUpdate(table, jde_log_id, message, ok) ==
    IF DRY_RUN_DB \/ DbFails(ok) THEN table
    ELSE [i \in DOMAIN table |->
            IF table[i].jde_log_id = Str(jde_log_id)
            THEN [table[i] EXCEPT !.message = message]
            ELSE table[i]]

(* ------------------------- core.py: send_mail ------------------------- *)
\* the SMTP exchange raises (send_mail logs it and returns)
MailFails(ok) == ~DRY_RUN_SMTP /\ ~ok

\* the outbox after send_mail; ok is whether the SMTP exchange succeeds
SendMail(box, subject, body, ok) ==
    IF DRY_RUN_SMTP \/ MailFails(ok) THEN box
    ELSE Append(box, [subject |-> subject, body |-> body])

(* ---------------------- service.py: public services ------------------- *)
\* no document
NoDoc == [CustomId |-> None]

\* the per-request variables of a worker that handles no request
Idle ==
    /\ flow = "none"
    /\ pc = "idle"
    /\ p = NoDoc
    /\ headers = None
    /\ status = 0
    /\ jde_resp = JsonOther
    /\ fields = NoFields
    /\ error_text = None
    /\ result = [success |-> "-", message |-> "-"]
    /\ attempt = 0
    /\ retries = 0
    /\ sleeps = 0
    /\ delays = <<>>
    /\ httpEnd = "none"
    /\ last = NoOutcome
    /\ raised = None
    /\ reqs = <<>>
    /\ ev = <<>>

\* the pool variables of a process whose workflows are not looked at one by one
NoPool ==
    /\ conns = <<>>
    /\ wk = <<>>

\* an http_json call, as recorded in reqs
Request(path, payload, auth) == [path |-> path, payload |-> payload, auth |-> auth]

\* create_fatture up to the first attempt of the invoice call
CreateFattureStart ==
    /\ pc = "idle"
    /\ \E d \in Invoices :
         LET auth_header == BasicAuthHeaderForCompany(JDE_CREDENTIALS_JSON, d.Company) IN
         /\ flow' = "fatt"
         /\ p' = d
         /\ headers' = IF Truthy(auth_header) THEN auth_header ELSE None
         /\ reqs' = Append(reqs, Request("/api/fatture", d, headers'))
         /\ HttpCall("fatt", HTTP_RETRIES)
    /\ UNCHANGED <<cfgVars, fields, ev, log, outbox, poolVars>>

\* a plausible slip: > instead of >=
HttpRejectedAbove(st) == st > 400

\* status >= 400: the HTTP-rejection branch is taken
HttpRejected(st) == st >= 400

\* a plausible slip: everything that is not "OK" counts as an error
IsLogicalErrorNotOk(js) == Upper(Str(Get(js.d, "status", ""))) # "OK"

\* str(jde_resp.get("status", "")).upper() == "ERROR"
IsLogicalError(js) == Upper(Str(Get(js.d, "status", ""))) = "ERROR"

\* default_msg of the insert that follows a reply with HTTP status < 400
InsertedMessage(d, f) ==
    Or(f.message,
       "Invoice no. " \o d.DocumentNumber \o " " \o d.DocumentType
         \o " " \o d.DocumentCompany \o " successfully inserted")

\* a plausible slip: a failed log write turns into the result of the run
LogFailureFailsRun(failed, res) ==
    IF failed THEN [success |-> "0", message |-> "integration_log write failed"] ELSE res

\* except Exception as log_err / upd_err: the failure is logged as a warning and
\* the run returns the result res it would return anyway
AfterLogWrite(failed, res) == res

\* create_fatture from the reply of the invoice call up to its return or up to
\* the first attempt of the diagnostics call
FattHandleResponse ==
    /\ pc = "fatt_resp"
    /\ UNCHANGED <<cfgVars, flow, p, headers, outbox, poolVars>>
    /\ \E ok \in BOOLEAN :
         LET f == ExtractJdeFields(IF jde_resp.kind = "dict" THEN jde_resp.d ELSE EmptyDict)
             msg == "JDE returned HTTP " \o ToString(status) \o " on invoice insert."
             ok_msg == InsertedMessage(p, f)
             err_payload == IF f.jde_log_id # None THEN ("jdeLogId" :> f.jde_log_id)
                            ELSE EmptyDict
         IN
         /\ fields' = f
         /\ IF HttpRejected(status)
            THEN /\ log' = DbInsert(log, LogRow(p, Or(Get(f, "messagea", None), msg), f), ok)
                 /\ ev' = ev \o Called("insert", DbFails(ok))
                 /\ pc' = "done"
                 /\ result' = AfterLogWrite(DbFails(ok),
                                 [success |-> "0",
                                  message |-> msg \o "\n" \o Or(f.message, msg)])
                 /\ UNCHANGED <<status, jde_resp, error_text, callVars, reqs>>
            ELSE /\ log' = DbInsert(log, LogRow(p, ok_msg, f), ok)
                 /\ IF jde_resp.kind # "dict"
                    THEN /\ ev' = ev \o Called("insert", DbFails(ok))
                         /\ pc' = "done"
                         /\ result' = [success |-> "0", message |-> NoGet]
                         /\ UNCHANGED <<status, jde_resp, error_text, callVars, reqs>>
                    ELSE IF IsLogicalError(jde_resp)
                    THEN /\ ev' = ev \o Called("insert", DbFails(ok)) \o <<"diag">>
                         /\ reqs' = Append(reqs, Request(ErrorLogPath, err_payload, headers))
                         /\ HttpCall("diag", HTTP_RETRIES)
                    ELSE /\ ev' = ev \o Called("insert", DbFails(ok))
                         /\ pc' = "done"
                         /\ result' = AfterLogWrite(DbFails(ok),
                                         [success |-> "1", message |-> "OK"])
                         /\ UNCHANGED <<status, jde_resp, error_text, callVars, reqs>>

\* a plausible slip: the amendment is issued without looking at the log id
AmendAlways(jde_log_id) == TRUE

\* if jde_log_id is not None: the amendment is issued
AmendIssued(jde_log_id) == jde_log_id # None

\* a plausible slip: the notification is sent before the log row is amended
MailThenAmend(amendCalls, mailCalls) == mailCalls \o amendCalls

\* the calls of the recovery after the diagnostics call, in statement order:
\* the amendment (when issued), then the notification
AmendThenMail(amendCalls, mailCalls) == amendCalls \o mailCalls

\* create_fatture from the end of the diagnostics call to its return: the
\* amendment of the log row, the notification, the fixed result
FattAmendNotify ==
    /\ pc = "fatt_amend"
    /\ UNCHANGED <<cfgVars, flow, p, headers, status, jde_resp, fields, error_text,
                   callVars, reqs, poolVars>>
    /\ \E okDb \in BOOLEAN, okMail \in BOOLEAN :
         LET jde_log_id == fields.jde_log_id
             subject == "JDE error for invoice id " \o p.CustomId \o " type "
                          \o p.DocumentType \o " logId " \o Str(jde_log_id)
             body == "An error occurred while inserting invoice.\n"
                       \o "CustomId: " \o p.CustomId \o "\n"
                       \o "DocumentType: " \o p.DocumentType \o "\n"
                       \o "Company: " \o p.Company \o "\n"
                       \o "DocumentNumber: " \o p.DocumentNumber \o "\n"
                       \o "JDE Log ID: " \o Str(jde_log_id) \o "\n\n"
                       \o "Details: " \o error_text \o "\n"
         IN
         /\ log' = IF AmendIssued(jde_log_id)
                   THEN DbUpdate(log, jde_log_id, error_text, okDb)
                   ELSE log
         /\ ev' = ev \o AmendThenMail(IF AmendIssued(jde_log_id)
                                       THEN Called("amend", DbFails(okDb)) ELSE <<>>,
                                       Called("mail", MailFails(okMail)))
         /\ outbox' = SendMail(outbox, subject, body, okMail)
         /\ pc' = "done"
         /\ result' = AfterLogWrite(AmendIssued(jde_log_id) /\ DbFails(okDb),
                         [success |-> "0",
                          message |-> "JDE returned ERROR. See logs/email for details"])

\* create_anagrafiche up to the first attempt of its call; okDb is whether the
\* upsert statement succeeds
CreateAnagraficheStart ==
    /\ pc = "idle"
    /\ UNCHANGED <<cfgVars, headers, fields, log, outbox, poolVars>>
    /\ \E d \in Anagrafiche, okDb \in BOOLEAN :
         /\ flow' = "anag"
         /\ p' = d
         /\ ev' = ev \o Called("upsert", DbFails(okDb))
         /\ IF DbFails(okDb)
            THEN /\ pc' = "done"
                 /\ result' = [success |-> "0", message |-> "connection pool exhausted"]
                 /\ UNCHANGED <<status, jde_resp, error_text, callVars, reqs>>
            ELSE /\ reqs' = Append(reqs, Request("/api/anagrafiche",
                                     AttachCredentials(JDE_CREDENTIALS_JSON, d), None))
                 /\ HttpCall("anag", HTTP_RETRIES)

\* jde_ping: one http_json call with retries = 0
JdePing ==
    /\ pc = "idle"
    /\ UNCHANGED <<cfgVars, p, headers, fields, ev, log, outbox, poolVars>>
    /\ flow' = "ping"
    /\ reqs' = Append(reqs, Request("/health", EmptyDict, None))
    /\ HttpCall("ping", 0)

(* ---------------------------- specification --------------------------- *)
\* HTTP_BACKOFF_BASE when the environment does not set it: 0.3 s
DefaultBackoffBase == 30

\* DB_POOL_MAX when the environment does not set it
DefaultPoolMax == 10

Init ==
    /\ HTTP_RETRIES \in 0..MaxRetries
    /\ DRY_RUN_DB \in BOOLEAN
    /\ DRY_RUN_JDE \in BOOLEAN
    /\ DRY_RUN_SMTP \in BOOLEAN
    /\ JDE_BASE_URL \in {"http://jde:8000", "jde"}
    /\ JDE_CREDENTIALS_JSON \in CredSources
    /\ HTTP_BACKOFF_BASE = DefaultBackoffBase
    /\ DB_POOL_MAX = DefaultPoolMax
    /\ Idle
    /\ NoPool
    /\ log = <<>>
    /\ outbox = <<>>

Next ==
    \/ CreateFattureStart
    \/ CreateAnagraficheStart
    \/ JdePing
    \/ HttpAttempt
    \/ FattHandleResponse
    \/ FattAmendNotify

Spec == Init /\ [][Next]_vars

\* the scheduler keeps running the worker's code: a loop iteration or a handler
\* step that can run does run; requests arrive when a client sends them
FairSpec ==
    /\ Spec
    /\ WF_vars(HttpAttempt)
    /\ WF_vars(FattHandleResponse)
    /\ WF_vars(FattAmendNotify)

(* -------------- _extract_jde_fields over bounded raw responses -------- *)
\* every alias of every canonical field, and a key that is no alias
AllKeys ==
    { "message", "jdeSimpleMessage", "userDefinedErrorText",
      "jde__status", "jdeStatus", "jde_status",
      "jde__startTimestamp", "jdeStartTimestamp",
      "jde__endTimestamp", "jdeEndTimestamp",
      "status",
      "BatchNo", "batchNo", "batchno",
      "jde__serverExecutionSeconds", "jdeServerExecutionSeconds",
      "jdeLogId", "jde_log_id", "exceptionId",
      "timeStamp" }

\* values of a raw response: two texts, the empty text, JSON null
RawValues == {"a", "b", "", None}

\* the key sets of at most n keys
RECURSIVE KeySets(_)
KeySets(n) ==
    IF n = 0 THEN {{}}
    ELSE KeySets(n - 1) \cup { ks \cup {k} : ks \in KeySets(n - 1), k \in AllKeys }

\* the raw responses of at most MaxKeys keys
RawResponses == UNION { [ks -> RawValues] : ks \in KeySets(MaxKeys) }

NormInit ==
    /\ HTTP_RETRIES = 0
    /\ DRY_RUN_DB = FALSE
    /\ DRY_RUN_JDE = FALSE
    /\ DRY_RUN_SMTP = TRUE
    /\ JDE_BASE_URL = "http://jde:8000"
    /\ JDE_CREDENTIALS_JSON = CredsAbsent
    /\ HTTP_BACKOFF_BASE = DefaultBackoffBase
    /\ DB_POOL_MAX = DefaultPoolMax
    /\ NoPool
    /\ flow = "norm"
    /\ pc = "norm_in"
    /\ p = NoDoc
    /\ headers = None
    /\ status = 0
    /\ jde_resp \in { JsonDict(d) : d \in RawResponses }
    /\ fields = NoFields
    /\ error_text = None
    /\ result = [success |-> "-", message |-> "-"]
    /\ attempt = 0
    /\ retries = 0
    /\ sleeps = 0
    /\ delays = <<>>
    /\ httpEnd = "none"
    /\ last = NoOutcome
    /\ raised = None
    /\ reqs = <<>>
    /\ ev = <<>>
    /\ log = <<>>
    /\ outbox = <<>>

\* one call of _extract_jde_fields on the raw response
Normalize ==
    /\ pc = "norm_in"
    /\ pc' = "norm_out"
    /\ fields' = ExtractJdeFields(jde_resp.d)
    /\ UNCHANGED <<cfgVars, flow, p, headers, status, jde_resp, error_text, result,
                   callVars, reqs, ev, log, outbox, poolVars>>

NormNext == Normalize

SpecNorm == NormInit /\ [][NormNext]_vars

(* ------- specification of _basic_auth_header_for_company alone -------- *)
CredInit ==
    /\ HTTP_RETRIES = 0
    /\ DRY_RUN_DB = FALSE
    /\ DRY_RUN_JDE = FALSE
    /\ DRY_RUN_SMTP = TRUE
    /\ JDE_BASE_URL = "http://jde:8000"
    /\ JDE_CREDENTIALS_JSON \in CredInputs
    /\ HTTP_BACKOFF_BASE = DefaultBackoffBase
    /\ DB_POOL_MAX = DefaultPoolMax
    /\ NoPool
    /\ flow = "cred"
    /\ pc = "cred_in"
    /\ p \in Invoices
    /\ headers = None
    /\ status = 0
    /\ jde_resp = JsonOther
    /\ fields = NoFields
    /\ error_text = None
    /\ result = [success |-> "-", message |-> "-"]
    /\ attempt = 0
    /\ retries = 0
    /\ sleeps = 0
    /\ delays = <<>>
    /\ httpEnd = "none"
    /\ last = NoOutcome
    /\ raised = None
    /\ reqs = <<>>
    /\ ev = <<>>
    /\ log = <<>>
    /\ outbox = <<>>

\* one call of _basic_auth_header_for_company(p.Company)
ResolveCredentials ==
    /\ pc = "cred_in"
    /\ pc' = "cred_out"
    /\ headers' = BasicAuthHeaderForCompany(JDE_CREDENTIALS_JSON, p.Company)
    /\ UNCHANGED <<cfgVars, flow, p, status, jde_resp, fields, error_text, result,
                   callVars, reqs, ev, log, outbox, poolVars>>

CredNext == ResolveCredentials

SpecCreds == CredInit /\ [][CredNext]_vars

(* ------ specification of the connection pool under concurrent runs ---- *)
Workers == 1..NWorkers

\* replies of the ERP as far as the use of the pool depends on them
PoolReplies ==
    { [status |-> st, js |-> JsonDict(d)] :
        st \in {200, 400},
        d \in { ("status" :> "OK"),
                ("status" :> "ERROR"),
                ("status" :> "ERROR") @@ ("jdeLogId" :> "77") } }

\* a thread of the pool that runs no workflow
IdleWorker ==
    [pc |-> "idle", flow |-> "none", op |-> "none",
     reply |-> [status |-> 0, js |-> JsonOther],
     logged |-> FALSE, starved |-> FALSE, stmt_failed |-> FALSE, success |-> "-"]

\* connections checked out of _POOL
CheckedOut(c) == Cardinality({ w \in DOMAIN c : c[w] > 0 })

\* a plausible slip: the pool hands out connections without a limit
ExhaustedNever(c) == FALSE

\* SimpleConnectionPool(DB_POOL_MIN, DB_POOL_MAX): getconn finds every
\* connection checked out
Exhausted(c) == CheckedOut(c) >= DB_POOL_MAX

\* a plausible slip: the connection goes back only when the statement succeeded
PutOnSuccessOnly(c, w, failed) == IF failed THEN c ELSE [c EXCEPT ![w] = 0]

\* finally: put_db_conn(conn), whether the statement failed or not
PutDbConn(c, w, failed) == [c EXCEPT ![w] = 0]

\* the workflow of record r after its store operation r.op is over; failed is
\* whether the operation raised (acquisition or statement)
AfterOp(r, failed) ==
    LET f == ExtractJdeFields(r.reply.js.d) IN
    CASE r.op = "upsert" ->
           \* create_anagrafiche: a failure reaches the top-level except
           [r EXCEPT !.pc = "done", !.op = "none",
                     !.success = IF failed \/ HttpRejected(r.reply.status)
                                 THEN "0" ELSE "1"]
      [] r.op = "insert" ->
           \* create_fatture: a failure of the insert is logged and passed over
           IF HttpRejected(r.reply.status)
           THEN [r EXCEPT !.pc = "done", !.op = "none", !.success = "0",
                          !.logged = ~failed /\ ~DRY_RUN_DB]
           ELSE IF IsLogicalError(r.reply.js)
           THEN IF AmendIssued(f.jde_log_id)
                THEN [r EXCEPT !.pc = "get", !.op = "update",
                               !.logged = ~failed /\ ~DRY_RUN_DB]
                ELSE [r EXCEPT !.pc = "done", !.op = "none", !.success = "0",
                               !.logged = ~failed /\ ~DRY_RUN_DB]
           ELSE [r EXCEPT !.pc = "done", !.op = "none", !.success = "1",
                          !.logged = ~failed /\ ~DRY_RUN_DB]
      [] OTHER ->
           \* the amendment: a failure is logged and passed over
           [r EXCEPT !.pc = "done", !.op = "none", !.success = "0"]

PoolInit ==
    /\ HTTP_RETRIES = 0
    /\ DRY_RUN_DB \in BOOLEAN
    /\ DRY_RUN_JDE = FALSE
    /\ DRY_RUN_SMTP = TRUE
    /\ JDE_BASE_URL = "http://jde:8000"
    /\ JDE_CREDENTIALS_JSON = CredsAbsent
    /\ HTTP_BACKOFF_BASE = DefaultBackoffBase
    /\ DB_POOL_MAX \in 1..MaxPool
    /\ Idle
    /\ log = <<>>
    /\ outbox = <<>>
    /\ conns = [w \in Workers |-> 0]
    /\ wk = [w \in Workers |-> IdleWorker]

\* what the pool specification leaves alone
nonPoolVars == <<cfgVars, flow, pc, p, headers, status, jde_resp, fields, error_text,
                 result, callVars, reqs, ev, log, outbox>>

\* a request arrives: create_anagrafiche up to its upsert, or create_fatture up
\* to the log insert that follows the reply of the invoice call
WorkerStart(w) ==
    /\ wk[w].pc = "idle"
    /\ \E fl \in {"anag", "fatt"}, rp \in PoolReplies :
         wk' = [wk EXCEPT ![w] = [IdleWorker EXCEPT
                                     !.pc = "get", !.flow = fl, !.reply = rp,
                                     !.op = IF fl = "anag" THEN "upsert" ELSE "insert"]]
    /\ UNCHANGED <<conns, nonPoolVars>>

\* conn = get_db_conn() of a store operation (not reached when DRY_RUN_DB is on)
Acquire(w) ==
    /\ wk[w].pc = "get"
    /\ UNCHANGED nonPoolVars
    /\ IF DRY_RUN_DB
       THEN /\ wk' = [wk EXCEPT ![w] = AfterOp(wk[w], FALSE)]
            /\ UNCHANGED conns
       ELSE IF Exhausted(conns)
       THEN /\ wk' = [wk EXCEPT ![w] = AfterOp([wk[w] EXCEPT !.starved = TRUE], TRUE)]
            /\ UNCHANGED conns
       ELSE \E ok \in BOOLEAN :
              IF ok
              THEN /\ conns' = [conns EXCEPT ![w] = 1]
                   /\ wk' = [wk EXCEPT ![w].pc = "exec"]
              ELSE /\ wk' = [wk EXCEPT ![w] = AfterOp(wk[w], TRUE)]
                   /\ UNCHANGED conns

\* the statement inside `with conn`, then the finally clause
Execute(w) ==
    /\ wk[w].pc = "exec"
    /\ UNCHANGED nonPoolVars
    /\ \E ok \in BOOLEAN :
         /\ conns' = PutDbConn(conns, w, ~ok)
         /\ wk' = [wk EXCEPT ![w] = AfterOp([wk[w] EXCEPT !.stmt_failed = @ \/ ~ok], ~ok)]

\* the response is sent and the thread goes back to the thread pool
WorkerReturn(w) ==
    /\ wk[w].pc = "done"
    /\ wk' = [wk EXCEPT ![w] = IdleWorker]
    /\ UNCHANGED <<conns, nonPoolVars>>

PoolNext ==
    \/ \E w \in Workers : WorkerStart(w)
    \/ \E w \in Workers : Acquire(w)
    \/ \E w \in Workers : Execute(w)
    \/ \E w \in Workers : WorkerReturn(w)

SpecPool == PoolInit /\ [][PoolNext]_vars

(* --------- specification of the backoff of http_json's retries -------- *)
\* HTTP_BACKOFF_BASE values explored: 0.1 s, 0.2 s, ...
BackoffBases == { 10 * k : k \in 1..MaxBaseTenths }

BackoffInit ==
    /\ HTTP_RETRIES \in 0..MaxRetries
    /\ DRY_RUN_DB = FALSE
    /\ DRY_RUN_JDE = FALSE
    /\ DRY_RUN_SMTP = TRUE
    /\ JDE_BASE_URL = "http://jde:8000"
    /\ JDE_CREDENTIALS_JSON = CredsAbsent
    /\ HTTP_BACKOFF_BASE \in BackoffBases
    /\ DB_POOL_MAX = DefaultPoolMax
    /\ Idle
    /\ NoPool
    /\ log = <<>>
    /\ outbox = <<>>

BackoffNext ==
    \/ CreateAnagraficheStart
    \/ HttpAttemptJitter

SpecBackoff == BackoffInit /\ [][BackoffNext]_vars

(* ---- specification of the log table under several invoice runs ------ *)
\* the invoice of run w: every run submits a document of its own
RunDoc(w) ==
    [CustomId |-> ToString(w), DocumentType |-> "RI", DocumentNumber |-> "100",
     DocumentCompany |-> "00001", Company |-> "ACME"]

\* reply bodies (HTTP status < 400) as far as the log table depends on them:
\* a log id that several replies share, none, and one equal to the sentinel
LogReplies ==
    { JsonDict(d) :
        d \in { ("status" :> "ERROR") @@ ("jdeLogId" :> "42"),
                ("status" :> "OK") @@ ("jdeLogId" :> "42"),
                ("status" :> "ERROR"),
                ("status" :> "ERROR") @@ ("jdeLogId" :> "0") } }

\* texts the diagnostics call may yield
DiagTexts == {"bad account", "period closed"}

\* a run that has not started
IdleRun == [pc |-> "idle", doc |-> NoDoc, js |-> JsonOther, text |-> None]

LogInit ==
    /\ HTTP_RETRIES = 0
    /\ DRY_RUN_DB = FALSE
    /\ DRY_RUN_JDE = FALSE
    /\ DRY_RUN_SMTP = TRUE
    /\ JDE_BASE_URL = "http://jde:8000"
    /\ JDE_CREDENTIALS_JSON = CredsAbsent
    /\ HTTP_BACKOFF_BASE = DefaultBackoffBase
    /\ DB_POOL_MAX = DefaultPoolMax
    /\ Idle
    /\ log = <<>>
    /\ outbox = <<>>
    /\ conns = [w \in Workers |-> 0]
    /\ wk = [w \in Workers |-> IdleRun]

\* what the log-table specification leaves alone
nonLogVars == <<cfgVars, flow, pc, p, headers, status, jde_resp, fields, error_text,
                result, callVars, reqs, ev, outbox, conns>>

\* create_fatture of run w up to the reply of its invoice call
LogRunStart(w) ==
    /\ wk[w].pc = "idle"
    /\ \E js \in LogReplies :
         wk' = [wk EXCEPT ![w] = [IdleRun EXCEPT !.pc = "insert", !.doc = RunDoc(w),
                                                 !.js = js]]
    /\ UNCHANGED <<log, nonLogVars>>

\* the insert of run w, then its diagnostics call when the reply is a logical
\* rejection; ok is whether the insert goes through
LogInsert(w) ==
    /\ wk[w].pc = "insert"
    /\ UNCHANGED nonLogVars
    /\ \E ok \in BOOLEAN, t \in DiagTexts :
         LET f == ExtractJdeFields(wk[w].js.d) IN
         /\ log' = DbInsert(log, LogRow(wk[w].doc, InsertedMessage(wk[w].doc, f), f), ok)
         /\ wk' = IF IsLogicalError(wk[w].js)
                  THEN [wk EXCEPT ![w].pc = "amend", ![w].text = t]
                  ELSE [wk EXCEPT ![w].pc = "done"]

\* the amendment of run w (when its reply carries a log id), then its return
LogAmend(w) ==
    /\ wk[w].pc = "amend"
    /\ UNCHANGED nonLogVars
    /\ \E ok \in BOOLEAN :
         LET jde_log_id == ExtractJdeFields(wk[w].js.d).jde_log_id IN
         /\ log' = IF AmendIssued(jde_log_id)
                   THEN DbUpdate(log, jde_log_id, wk[w].text, ok)
                   ELSE log
         /\ wk' = [wk EXCEPT ![w].pc = "done"]

LogNext ==
    \/ \E w \in Workers : LogRunStart(w)
    \/ \E w \in Workers : LogInsert(w)
    \/ \E w \in Workers : LogAmend(w)

SpecLog == LogInit /\ [][LogNext]_vars

(* ------------------------------ properties ---------------------------- *)
\* how often x occurs in a sequence
Count(seq, x) == Cardinality({ i \in DOMAIN seq : seq[i] = x })

HttpPcs == {"fatt_http", "diag_http", "anag_http", "ping_http"}

\* create_fatture has returned
FattDone == flow = "fatt" /\ pc = "done"

\* the invoice call got an HTTP reply (status is 0 until then)
FattReply == flow = "fatt" /\ status # 0

\* the status field of the reply body, None when the body carries none
StatusField == IF jde_resp.kind = "dict" THEN Get(jde_resp.d, "status", None) ELSE None

\* the ERP replied with HTTP status < 400 and status "ERROR"
LogicalErrorReply == FattReply /\ status < 400 /\ StatusField = "ERROR"

FixedErrorResult ==
    [success |-> "0", message |-> "JDE returned ERROR. See logs/email for details"]

OkResult == [success |-> "1", message |-> "OK"]

\* no diagnostics call, no amendment, no notification was issued
NoRecovery ==
    /\ Count(ev, "diag") = 0
    /\ Count(ev, "amend") = 0
    /\ Count(ev, "mail") = 0
    /\ \A i \in DOMAIN reqs : reqs[i].path # ErrorLogPath
    /\ outbox = <<>>

\* C1: when every attempt of http_json ends in a network-level failure, exactly
\* 1 + retries connection attempts were made when the failure is raised.
C1_AttemptsOnePlusRetries == httpEnd = "neterr" => attempt = 1 + retries

\* C2: create_fatture and create_anagrafiche never leave their code by an
\* exception: the worker is always at a position of the handler, a finished call
\* carries success "0" or "1", and an exception that reaches the top-level
\* handler (a raising invoice or party-record call, a reply body that is no
\* object, a failing upsert) yields success "0" with the exception text.
C2_NeverPropagates ==
    /\ pc \in {"idle", "fatt_resp", "fatt_amend", "done"} \cup HttpPcs
    /\ (pc = "done" /\ flow \in {"fatt", "anag"}) =>
         /\ result.success \in {"0", "1"}
         /\ (raised # None /\ Len(reqs) = 1) =>
               result = [success |-> "0", message |-> raised]
         /\ (FattReply /\ status < 400 /\ jde_resp.kind # "dict") =>
               result = [success |-> "0", message |-> NoGet]
         /\ Count(ev, "upsert_failed") = 1 => result.success = "0"

\* C2 witness: the credential source is malformed and the invoice call raised
\* after its last attempt; the call still returned a failed result.
C2_Witness ==
    /\ FattDone
    /\ JDE_CREDENTIALS_JSON = CredsMalformed
    /\ httpEnd = "neterr"
    /\ Len(reqs) = 1
    /\ result = [success |-> "0", message |-> "timed out"]

\* C3: in a create_fatture run whose reply has HTTP status < 400 and status
\* "ERROR", exactly one log insert, exactly one diagnostics call, at most one
\* amendment (none when the normalized log id is absent) and exactly one
\* notification are issued.
C3_LogicalErrorCallsOnce ==
    /\ flow = "fatt" =>
         \A x \in {"insert", "diag", "amend", "mail"} : Count(ev, x) <= 1
    /\ (LogicalErrorReply /\ pc = "done") =>
         /\ Count(ev, "insert") = 1
         /\ Count(ev, "diag") = 1
         /\ Cardinality({ i \in DOMAIN reqs : reqs[i].path = ErrorLogPath }) = 1
         /\ Count(ev, "amend") <= 1
         /\ fields.jde_log_id = None => Count(ev, "amend") = 0
         /\ Count(ev, "mail") = 1

\* C3 witness: a finished logical-rejection run whose reply carried no log id.
C3_Witness ==
    /\ LogicalErrorReply
    /\ pc = "done"
    /\ fields.jde_log_id = None
    /\ ev = <<"insert", "diag", "mail">>

\* C4: in a create_fatture run whose reply has HTTP status < 400 and status
\* "ERROR", the result is success "0" with the fixed message, whatever the
\* diagnostics call, the log insert, the amendment and the notification do.
C4_LogicalErrorFixedResult ==
    (LogicalErrorReply /\ pc = "done") => result = FixedErrorResult

\* C4 witness: the insert failed, the diagnostics call raised, the amendment
\* failed and the mail failed, and the fixed result was returned.
C4_Witness ==
    /\ LogicalErrorReply
    /\ pc = "done"
    /\ raised # None
    /\ ev = <<"insert", "insert_failed", "diag", "amend", "amend_failed",
              "mail", "mail_failed">>
    /\ result = FixedErrorResult

\* C5 as stated: after a reply with HTTP status >= 400 exactly one log entry is
\* appended, no diagnostics, amendment or notification occurs, success is "0"
\* (looked at with the store enabled).
C5_ExactlyOneEntryAppended ==
    (FattDone /\ status >= 400 /\ ~DRY_RUN_DB) =>
        /\ Len(log) = 1
        /\ NoRecovery
        /\ result.success = "0"

\* C5 amended: after a reply with HTTP status >= 400 exactly one log insert is
\* issued, which appends one entry unless the store is disabled or the insert
\* fails (then none); no diagnostics call, amendment or notification occurs,
\* whatever the body holds, and success is "0".
C5_HttpRejectionOneInsert ==
    (FattDone /\ status >= 400) =>
        /\ Count(ev, "insert") = 1
        /\ Len(log) = IF DRY_RUN_DB \/ Count(ev, "insert_failed") = 1 THEN 0 ELSE 1
        /\ Len(reqs) = 1
        /\ NoRecovery
        /\ result.success = "0"

\* C5 witness: a reply with status 400 whose body says status "ERROR" was
\* logged and rejected.
C5_Witness ==
    /\ FattDone
    /\ status = 400
    /\ StatusField = "ERROR"
    /\ Len(log) = 1
    /\ result.success = "0"

\* C6 as stated: a reply with HTTP status < 400 whose status field is absent or
\* is not the exact string "ERROR" ends Accepted: success "1", message "OK", no
\* diagnostics, amendment or notification (looked at for bodies that are JSON
\* objects).
C6_AcceptedUnlessExactError ==
    (FattDone /\ status # 0 /\ status < 400 /\ jde_resp.kind = "dict"
       /\ StatusField # "ERROR") =>
        /\ result = OkResult
        /\ NoRecovery

\* C6 amended: a reply with HTTP status < 400 whose body is a JSON object and
\* whose status field is absent or, as text in upper case, is not "ERROR" ends
\* Accepted: success "1", message "OK", no diagnostics, amendment or
\* notification.
C6_AcceptedUnlessError ==
    (FattDone /\ status # 0 /\ status < 400 /\ jde_resp.kind = "dict"
       /\ Upper(Str(Get(jde_resp.d, "status", ""))) # "ERROR") =>
        /\ result = OkResult
        /\ Len(reqs) = 1
        /\ NoRecovery

\* C6 witness: a 399 reply whose body has no status field was accepted.
C6_Witness ==
    /\ FattDone
    /\ status = 399
    /\ jde_resp.kind = "dict"
    /\ "status" \notin DOMAIN jde_resp.d
    /\ result = OkResult

\* C7: a submission of either workflow that obtained an HTTP reply from the ERP
\* has appended exactly one log entry (looked at with the store enabled and no
\* insert having failed).
C7_OneEntryPerSubmission ==
    (pc = "done" /\ flow \in {"fatt", "anag"} /\ status # 0 /\ ~DRY_RUN_JDE
       /\ ~DRY_RUN_DB /\ Count(ev, "insert_failed") = 0) =>
        Len(log) = 1

\* C8: an attempt that receives an HTTP reply, of any status and body, ends the
\* http_json call with that status; the loop goes on to another attempt only
\* after a network-level failure.
C8_ReplyEndsCall ==
    [][ attempt' = attempt + 1 =>
          /\ last'.kind = "reply" =>
               /\ pc' \notin HttpPcs
               /\ httpEnd' = "reply"
               /\ pc \in {"fatt_http", "anag_http"} => status' = last'.status
          /\ pc' \in HttpPcs =>
               /\ last'.kind = "neterr"
               /\ sleeps' = sleeps + 1 ]_vars

\* C8 witness: after one network failure the second attempt got a 500 reply and
\* the call returned it.
C8_Witness ==
    /\ pc = "fatt_resp"
    /\ httpEnd = "reply"
    /\ attempt = 2
    /\ sleeps = 1
    /\ last.status = 500
    /\ status = 500

\* the terminal states of the invoice workflow
Accepted == FattDone /\ result = OkResult /\ Count(ev, "diag") = 0
RejectedHttp == FattDone /\ status >= 400 /\ result.success = "0"
RejectedLogicalFinal == FattDone /\ result = FixedErrorResult /\ Count(ev, "mail") = 1
FailedByException ==
    FattDone /\ result.success = "0" /\ (raised # None \/ jde_resp.kind # "dict")

\* C9: every create_fatture run ends in Accepted, Rejected(Http),
\* Rejected(Logical,Final) or a failed result made from an exception, after a
\* bounded number of HTTP attempts, calls, store operations and notifications.
C9_Terminates ==
    /\ [](/\ attempt <= retries + 2
          /\ Len(reqs) <= 2
          /\ \A x \in {"insert", "diag", "amend", "mail"} : Count(ev, x) <= 1)
    /\ (flow = "fatt") ~>
          (Accepted \/ RejectedHttp \/ RejectedLogicalFinal \/ FailedByException)

\* C9 witness: the diagnostics call used up every attempt and the run still
\* reached Rejected(Logical,Final).
C9_Witness ==
    /\ RejectedLogicalFinal
    /\ Len(reqs) = 2
    /\ httpEnd = "neterr"
    /\ attempt = retries + 2

\* the alias order of each canonical field, as documented
DocumentedAliases ==
    [ message                      |-> <<"message", "jdeSimpleMessage", "userDefinedErrorText">>,
      jde_status                   |-> <<"jde__status", "jdeStatus", "jde_status">>,
      jde_start_timestamp          |-> <<"jde__startTimestamp", "jdeStartTimestamp">>,
      jde_end_timestamp            |-> <<"jde__endTimestamp", "jdeEndTimestamp">>,
      status                       |-> <<"status">>,
      batchno                      |-> <<"BatchNo", "batchNo", "batchno">>,
      jde_server_execution_seconds |-> <<"jde__serverExecutionSeconds",
                                         "jdeServerExecutionSeconds">>,
      jde_log_id                   |-> <<"jdeLogId", "jde_log_id", "exceptionId">> ]

\* v is the value of the first alias that d carries, None when d carries none
FirstAliasWins(d, keys, v) ==
    \/ /\ \A i \in DOMAIN keys : keys[i] \notin DOMAIN d
       /\ v = None
    \/ \E i \in DOMAIN keys :
         /\ keys[i] \in DOMAIN d
         /\ \A j \in 1..(i - 1) : keys[j] \notin DOMAIN d
         /\ v = d[keys[i]]

\* C10: _extract_jde_fields sets every canonical field to the value of the
\* first alias present in the raw response, in the documented order, and to
\* absent when the response has none of the field's aliases.
C10_FirstAliasWins ==
    pc = "norm_out" =>
        /\ DOMAIN fields = DOMAIN DocumentedAliases
        /\ \A f \in DOMAIN DocumentedAliases :
             FirstAliasWins(jde_resp.d, DocumentedAliases[f], fields[f])

\* C10 witness: a response with the second and third alias of log_id, and the
\* second one was taken.
C10_Witness ==
    /\ pc = "norm_out"
    /\ DOMAIN jde_resp.d = {"jde_log_id", "exceptionId"}
    /\ jde_resp.d["jde_log_id"] = "a"
    /\ jde_resp.d["exceptionId"] = "b"
    /\ fields.jde_log_id = "a"

\* the record the resolver answers with: a record of the company with only
\* records of other companies before it (0 when there is none, or when an item
\* that is no object comes first)
IsRecordOf(item, company) ==
    item.kind = "dict" /\ Get(item.d, "company", None) = company
FirstRecordOf(items, company) ==
    LET hits == { i \in DOMAIN items :
                    /\ IsRecordOf(items[i], company)
                    /\ \A j \in 1..(i - 1) :
                         items[j].kind = "dict" /\ ~IsRecordOf(items[j], company) }
    IN IF hits = {} THEN 0 ELSE CHOOSE i \in hits : TRUE

\* C11: the resolver answers with the Basic header of user:password of the first
\* record of the list whose company is the argument, and with nothing when the
\* source is absent, is no JSON, is no list, holds no record of the company, or
\* holds an item that is no object before one; the answer is fixed by the company
\* and the source, and the call changes nothing but its answer
C11_FirstMatchingRecord ==
    [][ResolveCredentials =>
        LET src == JDE_CREDENTIALS_JSON
            i == IF src.kind = "list" THEN FirstRecordOf(src.items, p.Company) ELSE 0
        IN /\ headers' = IF i = 0 THEN None
                         ELSE "Basic " \o B64(Str(Get(src.items[i].d, "user", "")) \o ":"
                                              \o Str(Get(src.items[i].d, "password", "")))
           /\ UNCHANGED <<cfgVars, log, outbox, poolVars>>]_vars

\* a list with two records of the company: the first one's pair is used
C11_Witness ==
    /\ pc = "cred_out"
    /\ JDE_CREDENTIALS_JSON = CredsList
    /\ p.Company = "ACME"
    /\ headers = "Basic " \o B64("user:password")

SuccessOfReply(rp) ==
    IF HttpRejected(rp.status) \/ IsLogicalError(rp.js) THEN "0" ELSE "1"

\* C14 as stated: a workflow that finds the pool exhausted fails the whole
\* attempt (success "0") instead of skipping the log write
C14_ExhaustionFailsAttempt ==
    \A w \in DOMAIN wk :
        (wk[w].pc = "done" /\ wk[w].starved) => wk[w].success = "0"

\* C14: the connections checked out never exceed DB_POOL_MAX; a workflow that
\* finds the pool exhausted gets an acquisition failure; create_fatture passes
\* over it, skips the log write or amendment and returns what the reply of the
\* invoice call determines (success "1" for an accepted invoice);
\* create_anagrafiche fails the attempt with success "0"
C14_ExhaustionSkipsLogWrite ==
    /\ DOMAIN wk # {} => CheckedOut(conns) <= DB_POOL_MAX
    /\ \A w \in DOMAIN wk :
         wk[w].pc = "done" =>
           /\ wk[w].flow = "fatt" => wk[w].success = SuccessOfReply(wk[w].reply)
           /\ (wk[w].flow = "fatt" /\ wk[w].starved
                 /\ ~AmendIssued(ExtractJdeFields(wk[w].reply.js.d).jde_log_id))
                => ~wk[w].logged
           /\ (wk[w].flow = "anag" /\ wk[w].starved) => wk[w].success = "0"

\* an accepted invoice whose log insert found the pool exhausted: no row, success "1"
C14_Witness ==
    \E w \in DOMAIN wk :
        /\ wk[w].pc = "done"
        /\ wk[w].flow = "fatt"
        /\ wk[w].starved
        /\ ~wk[w].logged
        /\ wk[w].success = "1"
        /\ CheckedOut(conns) = DB_POOL_MAX

\* the result create_fatture derives from the reply of the invoice call alone
ResultOfReply ==
    LET msg == "JDE returned HTTP " \o ToString(status) \o " on invoice insert."
        f == ExtractJdeFields(IF jde_resp.kind = "dict" THEN jde_resp.d ELSE EmptyDict)
    IN IF HttpRejected(status)
       THEN [success |-> "0", message |-> msg \o "\n" \o Or(f.message, msg)]
       ELSE IF jde_resp.kind # "dict" THEN [success |-> "0", message |-> NoGet]
       ELSE IF IsLogicalError(jde_resp) THEN FixedErrorResult
       ELSE OkResult

\* C13: for every reply of the invoice call, create_fatture returns the result
\* the reply determines, whether the log insert and the log amendment failed or
\* succeeded
C13_LogFailureKeepsResult == (FattDone /\ FattReply) => result = ResultOfReply

\* an accepted invoice whose log insert failed, and the result is still OK
C13_Witness ==
    /\ FattDone
    /\ FattReply
    /\ ev = <<"insert", "insert_failed">>
    /\ log = <<>>
    /\ result = OkResult

\* C15: in the HTTP-rejection branch the message of the log entry is the
\* normalized message of the reply body when the body supplies one, and the
\* synthetic "JDE returned HTTP <status> on invoice insert." only otherwise
C15_RejectionLogsErpMessage ==
    (FattDone /\ FattReply /\ HttpRejected(status) /\ Len(log) = 1)
      => log[1].message
           = Or(fields.message,
                "JDE returned HTTP " \o ToString(status) \o " on invoice insert.")

\* the k-th sleep of a call, the one before attempt k + 1, lies between
\* base * 2^(k-1) and that plus the largest jitter
DelaysInRange ==
    \A k \in DOMAIN delays :
        /\ HTTP_BACKOFF_BASE * Pow2(k - 1) <= delays[k]
        /\ delays[k] <= HTTP_BACKOFF_BASE * Pow2(k - 1) + JitterMax

DelaysNonDecreasing ==
    \A k \in DOMAIN delays : k + 1 \in DOMAIN delays => delays[k] <= delays[k + 1]

\* C16 as stated: for every backoff base and every jitter draw the delay before
\* attempt n lies in [base * 2^(n-2), base * 2^(n-2) + 0.2 s], and the
\* successive delays of one call never decrease
C16_BackoffNonDecreasing == DelaysInRange /\ DelaysNonDecreasing

\* C16: for every backoff base and every jitter draw the delay before attempt n
\* lies in [base * 2^(n-2), base * 2^(n-2) + 0.2 s]; the successive delays of
\* one call never decrease when the base is at least 0.2 s
C16_BackoffRange ==
    /\ DelaysInRange
    /\ HTTP_BACKOFF_BASE >= JitterMax => DelaysNonDecreasing

\* base 0.2 s, the largest jitter before attempt 2 and the smallest before attempt 3
C16_Witness ==
    /\ HTTP_BACKOFF_BASE = 20
    /\ delays = <<40, 40>>
    /\ attempt = 2

\* C17 as stated: no request is sent with a credentials key in its body while
\* the configured source is the per-company list
C17_NoBodyCredentialsWithList ==
    (JDE_CREDENTIALS_JSON.kind = "list" /\ attempt > 0)
      => \A i \in DOMAIN reqs : "credentials" \notin DOMAIN reqs[i].payload

\* C18: with DRY_RUN_JDE on, every http_json call returns 200 with the body
\* {"dry_run": true} at once: no connection attempt is made and no backoff
\* sleep happens, whatever the base URL is
C18_DryRunNoNetwork ==
    DRY_RUN_JDE =>
      /\ attempt = 0
      /\ sleeps = 0
      /\ delays = <<>>
      /\ last = NoOutcome
      /\ pc \notin HttpPcs
      /\ reqs # <<>> =>
           /\ httpEnd = "dry"
           /\ raised = None
           /\ flow \in {"fatt", "anag"} =>
                status = 200 /\ jde_resp = JsonDict("dry_run" :> "true")
           /\ flow = "ping" => result.success = "True"

\* an invoice submitted offline with a base URL that is no URL: one call, the
\* marker body, the accepted result
C18_Witness ==
    /\ DRY_RUN_JDE
    /\ ~ValidUrl(JDE_BASE_URL)
    /\ FattDone
    /\ Len(reqs) = 1
    /\ jde_resp = JsonDict("dry_run" :> "true")
    /\ result = OkResult

\* create_anagrafiche has returned after a reply of the ERP
AnagReply == flow = "anag" /\ pc = "done" /\ status # 0

\* C19: create_anagrafiche answers every reply with HTTP status < 400 with
\* success "1" and "OK", whatever status the body carries, and issues no
\* diagnostics call, no amendment and no notification; a reply with HTTP
\* status >= 400 gives success "0"
C19_AnagraficheByHttpStatus ==
    AnagReply =>
      /\ status < 400 => (result = OkResult /\ NoRecovery /\ Len(reqs) = 1)
      /\ status >= 400 =>
           (result = [success |-> "0",
                      message |-> "JDE returned status " \o ToString(status)]
            /\ NoRecovery /\ Len(reqs) = 1)

\* a party record answered with 399 and a body of status "ERROR": accepted
C19_Witness ==
    /\ AnagReply
    /\ ~DRY_RUN_JDE
    /\ status = 399
    /\ StatusField = "ERROR"
    /\ result = OkResult
    /\ ev = <<"upsert">>

\* position of the first x in a sequence, 0 when there is none
Pos(seq, x) ==
    IF \E i \in DOMAIN seq : seq[i] = x
    THEN CHOOSE i \in DOMAIN seq : seq[i] = x /\ \A j \in 1..(i - 1) : seq[j] # x
    ELSE 0

\* x and y both occurred, x first
Before(x, y) == 0 < Pos(ev, x) /\ Pos(ev, x) < Pos(ev, y)

\* C20: in create_fatture the log insert (failed or not) comes before the
\* diagnostics call, the diagnostics call is over before the amendment, and the
\* amendment (failed or not) comes before the notification
C20_RecoveryOrder ==
    flow = "fatt" =>
      /\ Pos(ev, "diag") > 0 =>
           /\ Before("insert", "diag")
           /\ Pos(ev, "insert_failed") < Pos(ev, "diag")
      /\ Pos(ev, "amend") > 0 =>
           /\ Before("diag", "amend")
           /\ pc \notin HttpPcs
           /\ httpEnd # "open"
      /\ Pos(ev, "mail") > 0 =>
           /\ Before("diag", "mail")
           /\ pc \notin HttpPcs
           /\ Pos(ev, "amend") < Pos(ev, "mail")
           /\ Pos(ev, "amend_failed") < Pos(ev, "mail")

\* a logical rejection with a log id whose four steps all went through
C20_Witness ==
    /\ LogicalErrorReply
    /\ pc = "done"
    /\ ev = <<"insert", "diag", "amend", "mail">>
    /\ Len(log) = 1
    /\ log[1].message = error_text

\* the diagnostics call of a create_fatture run is over
DiagOver == flow = "fatt" /\ Len(reqs) = 2 /\ pc \in {"fatt_amend", "done"}

\* the decoded body of the reply to the diagnostics call
DiagBody == ParseBody(last.data)

\* the request of the diagnostics call: the fixed path, the log id when there
\* is one, the headers of the invoice call
DiagRequestAsDocumented ==
    (flow = "fatt" /\ Len(reqs) = 2) =>
      /\ reqs[2].path = "/jderest/orchestrator/ALFA_ORC_RetriveErrorLog"
      /\ reqs[2].payload = IF fields.jde_log_id # None
                           THEN ("jdeLogId" :> fields.jde_log_id) ELSE EmptyDict
      /\ reqs[2].auth = reqs[1].auth

\* the text of the failure-to-fetch message when the diagnostics call raised
DiagFailureText ==
    (DiagOver /\ httpEnd \in {"neterr", "exc"})
      => error_text = "Failed to retrieve JDE error log: " \o raised

\* the body of the notification for diagnostic text t
MailBody(t) ==
    "An error occurred while inserting invoice.\n"
      \o "CustomId: " \o p.CustomId \o "\n"
      \o "DocumentType: " \o p.DocumentType \o "\n"
      \o "Company: " \o p.Company \o "\n"
      \o "DocumentNumber: " \o p.DocumentNumber \o "\n"
      \o "JDE Log ID: " \o Str(fields.jde_log_id) \o "\n\n"
      \o "Details: " \o t \o "\n"

\* the amendment and the notification carry error_text
TextIsUsed ==
    (DiagOver /\ pc = "done") =>
      /\ (Count(ev, "amend") = 1 /\ Count(ev, "amend_failed") = 0 /\ ~DRY_RUN_DB) =>
           \A i \in DOMAIN log :
               log[i].jde_log_id = Str(fields.jde_log_id) => log[i].message = error_text
      /\ outbox # <<>> => outbox[1].body = MailBody(error_text)

\* C22 as stated: the diagnostics request is as documented, and when the call
\* gets a reply the text is the ErrorLog of the reply, when it fails the text is
\* the failure-to-fetch message
C22_DiagTextIsErrorLog ==
    /\ DiagRequestAsDocumented
    /\ DiagFailureText
    /\ (DiagOver /\ httpEnd = "reply")
         => error_text = Get(DiagBody.d, "ErrorLog", None)

\* C22: the diagnostics request goes to the fixed path with {jdeLogId: log_id}
\* or an empty payload and the headers of the invoice call; when the call gets
\* a reply whose body is an object the text is its ErrorLog if that is present
\* and not empty and the JSON text of the body otherwise; when the body is no
\* object or the call raises, the text is the failure-to-fetch message; the
\* amendment and the notification carry that text
C22_DiagnosticsCall ==
    /\ DiagRequestAsDocumented
    /\ DiagFailureText
    /\ (DiagOver /\ httpEnd = "reply") =>
         error_text = IF DiagBody.kind = "dict"
                      THEN Or(Get(DiagBody.d, "ErrorLog", None), Dumps(DiagBody))
                      ELSE "Failed to retrieve JDE error log: " \o NoGet
    /\ TextIsUsed

\* log id "42", the diagnostics call answered with an ErrorLog, the row amended
\* with it and the notification sent
C22_Witness ==
    /\ DiagOver
    /\ pc = "done"
    /\ reqs[2].payload = ("jdeLogId" :> "42")
    /\ error_text = "bad account"
    /\ Len(log) = 1
    /\ log[1].message = "bad account"
    /\ Len(outbox) = 1

\* C23: when the invoice call ends in a transport failure after its last
\* attempt, create_fatture appends no log entry, issues no diagnostics call, no
\* amendment and no notification, and returns success "0" with the text of the
\* exception
C23_TransportFailureNoLog ==
    (FattDone /\ status = 0 /\ httpEnd = "neterr") =>
      /\ log = <<>>
      /\ ev = <<>>
      /\ NoRecovery
      /\ Len(reqs) = 1
      /\ raised \in NetErrors
      /\ result = [success |-> "0", message |-> raised]

\* every attempt of the invoice call timed out
C23_Witness ==
    /\ FattDone
    /\ status = 0
    /\ httpEnd = "neterr"
    /\ attempt >= 2
    /\ sleeps = attempt - 1
    /\ result = [success |-> "0", message |-> "timed out"]

\* the step is the amendment of run w
AmendStepOf(w) == wk[w].pc = "amend" /\ wk'[w].pc = "done"

\* C21: the amendment of a run changes only the message of the row that run
\* appended: no row of another run changes, no other column changes, no row is
\* added or removed by it, and no row is amended twice, whatever the order of
\* the runs and the log ids they report
C21_AmendOnlyOwnRow ==
    [][/\ Len(log') >= Len(log)
       /\ (\E w \in DOMAIN wk : AmendStepOf(w)) => Len(log') = Len(log)
       /\ \A i \in DOMAIN log :
            (i \in DOMAIN log' /\ log'[i] # log[i]) =>
              \E w \in DOMAIN wk :
                  /\ AmendStepOf(w)
                  /\ log[i].object_id = wk[w].doc.CustomId
                  /\ log'[i] = [log[i] EXCEPT !.message = wk[w].text]
                  /\ log[i].message
                       = InsertedMessage(wk[w].doc, ExtractJdeFields(wk[w].js.d))]_vars

====
